---- MODULE Spec2Model ----
(***************************************************************************)
(* Model of src/mpi_trap.c: a pthread fork-join computation of a sum over  *)
(* block-decomposed sample indices, accumulated into GLOBAL_MUTEX_SUM      *)
(* under one mutex.                                                        *)
(*                                                                         *)
(* A C double is modelled exactly as an extended rational [num, den]:      *)
(* den > 0 in lowest terms is a finite value, 1/0 and -1/0 are the IEEE    *)
(* infinities and 0/0 is NaN (the results the build produces for x/0.0 and *)
(* 0.0*inf).  Rounding is not modelled.                                    *)
(***************************************************************************)
EXTENDS Integers, Sequences, FiniteSets, TLC

\* Bounds of the explored configurations.
MaxN == 4
MaxP == 4
\* Bounds of the configurations explored under fair scheduling.
FairMaxN == 3
FairMaxP == 3

\* The hardwired n (line 61) and thread_count (line 69) are explored as inputs.
NValues == 0 .. MaxN
PValues == 1 .. MaxP
\* Worker counts of the worker-count comparison.
ThreadCounts == {1, 2, 4, 8}

VARIABLES
    in_n, in_threads,         \* the values the source hardwires for n and thread_count
    n, a, b, h,               \* globals, lines 43-44
    thread_count,             \* line 46
    GLOBAL_MUTEX_SUM,         \* line 47
    mutex,                    \* line 48: [st, owner]
    thread_handles,           \* main's handle array: "unset", "allocated", "null", "freed"
    thread,                   \* main's loop variable, line 78
    pc_main,                  \* main's position; "crashed" once the process was killed
    reported,                 \* the value main's printf read, or Unread
    wpc,                      \* per worker: position in mutex_Trap
    local_int, local_a, local_b, i, especial_case,   \* mutex_Trap's locals
    tmp,                      \* the value read by "GLOBAL_MUTEX_SUM += ..." before it is written back
    updates,                  \* history: number of writes of GLOBAL_MUTEX_SUM by each worker
    endpoint_adds,            \* history: number of times each worker added (f(a)+f(b))/2
    sampled                   \* history: the sample indices each worker evaluated f at

vars == <<in_n, in_threads, n, a, b, h, thread_count, GLOBAL_MUTEX_SUM, mutex,
          thread_handles, thread, pc_main, reported, wpc, local_int, local_a,
          local_b, i, especial_case, tmp, updates, endpoint_adds, sampled>>

main_vars == <<n, a, b, h, thread_count, thread_handles, thread, pc_main, reported>>
in_vars == <<in_n, in_threads>>
local_vars == <<local_int, local_a, local_b, i, especial_case, tmp>>
hist_vars == <<updates, endpoint_adds, sampled>>

----------------------------------------------------------------------------
\* Exact double arithmetic.  The operators bind their arguments to values
\* (xv \in {x}) so that an argument is evaluated once, also inside ENABLED.

Abs(x) == IF x < 0 THEN -x ELSE x

Sign(x) == IF x < 0 THEN -1 ELSE IF x > 0 THEN 1 ELSE 0

RECURSIVE GCD(_, _)
GCD(x, y) ==
    IF y = 0 THEN x
    ELSE CHOOSE g \in {GCD(yv, xv % yv) : xv \in {x}, yv \in {y}} : TRUE

Norm(nu, de) ==
    IF de = 0 THEN [num |-> Sign(nu), den |-> 0]
    ELSE CHOOSE r \in {[num |-> Sign(de) * (nu \div g), den |-> Abs(de) \div g] :
                          g \in {GCD(Abs(nu), Abs(de))}} : TRUE

FromInt(k) == [num |-> k, den |-> 1]

NaN == [num |-> 0, den |-> 0]

IsFinite(x) == x.den # 0

DAdd(x, y) ==
    CHOOSE r \in {IF xv.den = 0 /\ yv.den = 0
                  THEN IF xv.num = yv.num THEN xv ELSE NaN
                  ELSE Norm(xv.num * yv.den + yv.num * xv.den, xv.den * yv.den) :
                  xv \in {x}, yv \in {y}} : TRUE

DNeg(x) == CHOOSE r \in {[num |-> -xv.num, den |-> xv.den] : xv \in {x}} : TRUE

DSub(x, y) == DAdd(x, DNeg(y))

DMul(x, y) ==
    CHOOSE r \in {Norm(xv.num * yv.num, xv.den * yv.den) : xv \in {x}, yv \in {y}} : TRUE

DDiv(x, y) ==
    CHOOSE r \in {Norm(xv.num * yv.den * (IF yv.num < 0 THEN -1 ELSE 1),
                       xv.den * Abs(yv.num)) : xv \in {x}, yv \in {y}} : TRUE

----------------------------------------------------------------------------
\* The program's pure functions.

\* Variant: the block size is truncated first, so the tail n % p is assigned to nobody.
BLOCK_LOW_divfirst(id, p, nn) == id * (nn \div p)

\* Variant: truncated block size, the last worker takes the whole remainder.
BLOCK_LOW_rem(id, p, nn) == IF id = p THEN nn ELSE id * (nn \div p)

\* Variant: the quotient is rounded up.
BLOCK_LOW_ceil(id, p, nn) == (id * nn + p - 1) \div p

\* #define BLOCK_LOW(id,p,n) ((id)*(n)/(p))
BLOCK_LOW(id, p, nn) == (id * nn) \div p

\* Variant: the macros without parentheses, id+1*n/p-1.
BLOCK_HIGH_unparen(id, p, nn) == id + ((1 * nn) \div p) - 1

\* #define BLOCK_HIGH(id,p,n) (BLOCK_LOW((id)+1,p,n)-1)
BLOCK_HIGH(id, p, nn) == BLOCK_LOW(id + 1, p, nn) - 1

\* double f(double x) { return x*x - 4*x + 8; }
f(x) ==
    CHOOSE r \in {DAdd(DSub(DMul(xv, xv), DMul(FromInt(4), xv)), FromInt(8)) :
                  xv \in {x}} : TRUE

\* lines 119-122 as a function: acc plus f at the sample indices lo .. hi
RECURSIVE SumSamples(_, _, _, _, _)
SumSamples(acc, lo, hi, aa, hh) ==
    IF lo > hi THEN acc
    ELSE SumSamples(DAdd(acc, f(DAdd(aa, DMul(FromInt(lo), hh)))), lo + 1, hi, aa, hh)

\* lines 104-123 as a function: the scaled local_int of worker rank among p workers
LocalInt(rank, p, nn, aa, bb, hh) ==
    LET start == IF rank = 1
                 THEN DAdd(FromInt(0), DDiv(DAdd(f(aa), f(bb)), FromInt(2)))
                 ELSE FromInt(0)
    IN  DMul(SumSamples(start, BLOCK_LOW(rank, p, nn), BLOCK_HIGH(rank, p, nn), aa, hh), hh)

\* lines 79-85 and 127: the contributions of ranks k .. p-1 added to acc in rank order
RECURSIVE SerialTotal(_, _, _, _, _, _, _)
SerialTotal(acc, k, p, nn, aa, bb, hh) ==
    IF k >= p THEN acc
    ELSE SerialTotal(DAdd(acc, LocalInt(k, p, nn, aa, bb, hh)), k + 1, p, nn, aa, bb, hh)

----------------------------------------------------------------------------
Unread == [num |-> 0, den |-> -1]

InitFrom(ns, ps) ==
    /\ in_n \in ns
    /\ in_threads \in ps
    /\ n = 0
    /\ a = FromInt(0)
    /\ b = FromInt(0)
    /\ h = FromInt(0)
    /\ thread_count = 0
    /\ GLOBAL_MUTEX_SUM = FromInt(0)
    /\ mutex = [st |-> "uninit", owner |-> -1]
    /\ thread_handles = "unset"
    /\ thread = 0
    /\ pc_main = "init"
    /\ reported = Unread
    /\ wpc = [k \in 0 .. in_threads - 1 |-> "none"]
    /\ local_int = [k \in 0 .. in_threads - 1 |-> FromInt(0)]
    /\ local_a = [k \in 0 .. in_threads - 1 |-> 0]
    /\ local_b = [k \in 0 .. in_threads - 1 |-> 0]
    /\ i = [k \in 0 .. in_threads - 1 |-> 0]
    /\ especial_case = [k \in 0 .. in_threads - 1 |-> 0]
    /\ tmp = [k \in 0 .. in_threads - 1 |-> FromInt(0)]
    /\ updates = [k \in 0 .. in_threads - 1 |-> 0]
    /\ endpoint_adds = [k \in 0 .. in_threads - 1 |-> 0]
    /\ sampled = [k \in 0 .. in_threads - 1 |-> <<>>]

Init == InitFrom(NValues, PValues)

----------------------------------------------------------------------------
\* main

\* lines 61-71: n, a, b, h, thread_count, GLOBAL_MUTEX_SUM
MainInit ==
    /\ pc_main = "init"
    /\ n' = in_n
    /\ a' = FromInt(1)
    /\ b' = FromInt(5)
    /\ h' = DDiv(DSub(b', a'), FromInt(n'))
    /\ thread_count' = in_threads
    /\ GLOBAL_MUTEX_SUM' = FromInt(0)
    /\ pc_main' = "mutex_init"
    /\ UNCHANGED <<in_vars, mutex, thread_handles, thread, reported, wpc,
                   local_vars, hist_vars>>

\* line 74: pthread_mutex_init(&mutex, NULL)
MainMutexInit ==
    /\ pc_main = "mutex_init"
    /\ mutex' = [st |-> "unlocked", owner |-> -1]
    /\ pc_main' = "malloc"
    /\ UNCHANGED <<in_vars, n, a, b, h, thread_count, GLOBAL_MUTEX_SUM,
                   thread_handles, thread, reported, wpc, local_vars, hist_vars>>

\* line 75: thread_handles = malloc(...), which may return NULL and is not tested;
\* line 79: thread = 0
MainMalloc ==
    /\ pc_main = "malloc"
    /\ thread_handles' \in {"allocated", "null"}
    /\ thread' = 0
    /\ pc_main' = "create"
    /\ UNCHANGED <<in_vars, n, a, b, h, thread_count, GLOBAL_MUTEX_SUM, mutex,
                   reported, wpc, local_vars, hist_vars>>

\* lines 79-81: one iteration of the creation loop
MainCreate ==
    /\ pc_main = "create"
    /\ thread_handles = "allocated"
    /\ thread < thread_count
    /\ wpc' = [wpc EXCEPT ![thread] = "start"]
    /\ thread' = thread + 1
    /\ UNCHANGED <<in_vars, n, a, b, h, thread_count, GLOBAL_MUTEX_SUM, mutex,
                   thread_handles, pc_main, reported, local_vars, hist_vars>>

\* lines 79-81 with thread_handles == NULL: pthread_create is handed the invalid
\* address &thread_handles[thread].  The behaviour is undefined; the builds
\* differ in when the library stores the handle: before the thread is started
\* (the store faults and no thread exists) or after it (the thread runs until
\* the store faults).
MainCreateNull ==
    /\ pc_main = "create"
    /\ thread_handles = "null"
    /\ thread < thread_count
    /\ \/ /\ pc_main' = "crashed"
          /\ UNCHANGED wpc
       \/ /\ pc_main' = "store_fault"
          /\ wpc' = [wpc EXCEPT ![thread] = "start"]
    /\ UNCHANGED <<in_vars, n, a, b, h, thread_count, GLOBAL_MUTEX_SUM, mutex,
                   thread_handles, thread, reported, local_vars, hist_vars>>

\* line 80 with thread_handles == NULL: the store of the handle faults and the
\* signal kills the process, its threads included
MainStoreFault ==
    /\ pc_main = "store_fault"
    /\ pc_main' = "crashed"
    /\ UNCHANGED <<in_vars, n, a, b, h, thread_count, GLOBAL_MUTEX_SUM, mutex,
                   thread_handles, thread, reported, wpc, local_vars, hist_vars>>

\* Variant: the join loop is missing, main goes on to free and destroy.
MainCreateExit_nojoin ==
    /\ pc_main = "create"
    /\ ~(thread < thread_count)
    /\ pc_main' = "free"
    /\ UNCHANGED <<in_vars, n, a, b, h, thread_count, GLOBAL_MUTEX_SUM, mutex,
                   thread_handles, thread, reported, wpc, local_vars, hist_vars>>

\* line 79 exit, line 84: thread = 0
MainCreateExit ==
    /\ pc_main = "create"
    /\ ~(thread < thread_count)
    /\ thread' = 0
    /\ pc_main' = "join"
    /\ UNCHANGED <<in_vars, n, a, b, h, thread_count, GLOBAL_MUTEX_SUM, mutex,
                   thread_handles, reported, wpc, local_vars, hist_vars>>

\* Variant: the join does not wait for the thread.
MainJoin_nowait ==
    /\ pc_main = "join"
    /\ thread < thread_count
    /\ thread' = thread + 1
    /\ UNCHANGED <<in_vars, n, a, b, h, thread_count, GLOBAL_MUTEX_SUM, mutex,
                   thread_handles, pc_main, reported, wpc, local_vars, hist_vars>>

\* lines 84-85: pthread_join returns once the joined thread has terminated
MainJoin ==
    /\ pc_main = "join"
    /\ thread < thread_count
    /\ wpc[thread] = "done"
    /\ thread' = thread + 1
    /\ UNCHANGED <<in_vars, n, a, b, h, thread_count, GLOBAL_MUTEX_SUM, mutex,
                   thread_handles, pc_main, reported, wpc, local_vars, hist_vars>>

\* line 84 exit
MainJoinExit ==
    /\ pc_main = "join"
    /\ ~(thread < thread_count)
    /\ pc_main' = "free"
    /\ UNCHANGED <<in_vars, n, a, b, h, thread_count, GLOBAL_MUTEX_SUM, mutex,
                   thread_handles, thread, reported, wpc, local_vars, hist_vars>>

\* line 88: free(thread_handles)
MainFree ==
    /\ pc_main = "free"
    /\ thread_handles' = "freed"
    /\ pc_main' = "destroy"
    /\ UNCHANGED <<in_vars, n, a, b, h, thread_count, GLOBAL_MUTEX_SUM, mutex,
                   thread, reported, wpc, local_vars, hist_vars>>

\* line 89: pthread_mutex_destroy(&mutex)
MainDestroy ==
    /\ pc_main = "destroy"
    /\ mutex' = [st |-> "destroyed", owner |-> mutex.owner]
    /\ pc_main' = "print"
    /\ UNCHANGED <<in_vars, n, a, b, h, thread_count, GLOBAL_MUTEX_SUM,
                   thread_handles, thread, reported, wpc, local_vars, hist_vars>>

\* lines 92-95: the report reads GLOBAL_MUTEX_SUM
MainPrint ==
    /\ pc_main = "print"
    /\ reported' = GLOBAL_MUTEX_SUM
    /\ pc_main' = "return"
    /\ UNCHANGED <<in_vars, n, a, b, h, thread_count, GLOBAL_MUTEX_SUM, mutex,
                   thread_handles, thread, wpc, local_vars, hist_vars>>

\* line 97: return 0
MainReturn ==
    /\ pc_main = "return"
    /\ pc_main' = "done"
    /\ UNCHANGED <<in_vars, n, a, b, h, thread_count, GLOBAL_MUTEX_SUM, mutex,
                   thread_handles, thread, reported, wpc, local_vars, hist_vars>>

----------------------------------------------------------------------------
\* mutex_Trap(rank)

\* lines 103-116: locals, the block of work, the special case, and i = local_a
TrapStart(rank) ==
    /\ wpc[rank] = "start"
    /\ pc_main # "crashed"
    /\ especial_case' = [especial_case EXCEPT ![rank] = rank]
    /\ local_a' = [local_a EXCEPT ![rank] = BLOCK_LOW(rank, thread_count, n)]
    /\ local_b' = [local_b EXCEPT ![rank] = BLOCK_HIGH(rank, thread_count, n)]
    /\ IF especial_case'[rank] = 1
       THEN /\ local_int' = [local_int EXCEPT ![rank] =
                   DAdd(FromInt(0), DDiv(DAdd(f(a), f(b)), FromInt(2)))]
            /\ endpoint_adds' = [endpoint_adds EXCEPT ![rank] = @ + 1]
       ELSE /\ local_int' = [local_int EXCEPT ![rank] = FromInt(0)]
            /\ UNCHANGED endpoint_adds
    /\ i' = [i EXCEPT ![rank] = local_a'[rank]]
    /\ wpc' = [wpc EXCEPT ![rank] = "loop"]
    /\ UNCHANGED <<in_vars, main_vars, GLOBAL_MUTEX_SUM, mutex, tmp, updates, sampled>>

\* Variant: every sample is added straight into the shared accumulator.
TrapLoop_global(rank) ==
    /\ wpc[rank] = "loop"
    /\ pc_main # "crashed"
    /\ i[rank] <= local_b[rank]
    /\ GLOBAL_MUTEX_SUM' =
            DAdd(GLOBAL_MUTEX_SUM, DMul(f(DAdd(a, DMul(FromInt(i[rank]), h))), h))
    /\ sampled' = [sampled EXCEPT ![rank] = Append(@, i[rank])]
    /\ i' = [i EXCEPT ![rank] = @ + 1]
    /\ UNCHANGED <<in_vars, main_vars, mutex, wpc, local_int, local_a,
                   local_b, especial_case, tmp, updates, endpoint_adds>>

\* lines 119-122: one iteration of the summation loop
TrapLoop(rank) ==
    /\ wpc[rank] = "loop"
    /\ pc_main # "crashed"
    /\ i[rank] <= local_b[rank]
    /\ local_int' = [local_int EXCEPT ![rank] =
            DAdd(@, f(DAdd(a, DMul(FromInt(i[rank]), h))))]
    /\ sampled' = [sampled EXCEPT ![rank] = Append(@, i[rank])]
    /\ i' = [i EXCEPT ![rank] = @ + 1]
    /\ UNCHANGED <<in_vars, main_vars, GLOBAL_MUTEX_SUM, mutex, wpc, local_a,
                   local_b, especial_case, tmp, updates, endpoint_adds>>

\* Variant: line 123 assigns the product to the shared step size, h = local_int * h.
TrapScale_stepsize(rank) ==
    /\ wpc[rank] = "loop"
    /\ pc_main # "crashed"
    /\ ~(i[rank] <= local_b[rank])
    /\ h' = DMul(local_int[rank], h)
    /\ wpc' = [wpc EXCEPT ![rank] = "lock"]
    /\ UNCHANGED <<in_vars, n, a, b, thread_count, thread_handles, thread, pc_main,
                   reported, GLOBAL_MUTEX_SUM, mutex, local_vars, hist_vars>>

\* line 119 exit and line 123: local_int = local_int * h
TrapScale(rank) ==
    /\ wpc[rank] = "loop"
    /\ pc_main # "crashed"
    /\ ~(i[rank] <= local_b[rank])
    /\ local_int' = [local_int EXCEPT ![rank] = DMul(@, h)]
    /\ wpc' = [wpc EXCEPT ![rank] = "lock"]
    /\ UNCHANGED <<in_vars, main_vars, GLOBAL_MUTEX_SUM, mutex, local_a, local_b,
                   i, especial_case, tmp, hist_vars>>

\* Variant: the worker proceeds without acquiring the mutex.
TrapLock_skip(rank) ==
    /\ wpc[rank] = "lock"
    /\ pc_main # "crashed"
    /\ wpc' = [wpc EXCEPT ![rank] = "read"]
    /\ UNCHANGED <<in_vars, main_vars, GLOBAL_MUTEX_SUM, mutex, local_vars, hist_vars>>

\* line 126: pthread_mutex_lock(&mutex) returns once the mutex is acquired
TrapLock(rank) ==
    /\ wpc[rank] = "lock"
    /\ pc_main # "crashed"
    /\ mutex.st = "unlocked"
    /\ mutex' = [st |-> "locked", owner |-> rank]
    /\ wpc' = [wpc EXCEPT ![rank] = "read"]
    /\ UNCHANGED <<in_vars, main_vars, GLOBAL_MUTEX_SUM, local_vars, hist_vars>>

\* line 127, the read of GLOBAL_MUTEX_SUM += local_int
TrapRead(rank) ==
    /\ wpc[rank] = "read"
    /\ pc_main # "crashed"
    /\ tmp' = [tmp EXCEPT ![rank] = GLOBAL_MUTEX_SUM]
    /\ wpc' = [wpc EXCEPT ![rank] = "write"]
    /\ UNCHANGED <<in_vars, main_vars, GLOBAL_MUTEX_SUM, mutex, local_int, local_a,
                   local_b, i, especial_case, hist_vars>>

\* Variant: "=" in place of "+=".
TrapWrite_assign(rank) ==
    /\ wpc[rank] = "write"
    /\ pc_main # "crashed"
    /\ GLOBAL_MUTEX_SUM' = local_int[rank]
    /\ updates' = [updates EXCEPT ![rank] = @ + 1]
    /\ wpc' = [wpc EXCEPT ![rank] = "unlock"]
    /\ UNCHANGED <<in_vars, main_vars, mutex, local_vars, endpoint_adds, sampled>>

\* line 127, the write of GLOBAL_MUTEX_SUM += local_int
TrapWrite(rank) ==
    /\ wpc[rank] = "write"
    /\ pc_main # "crashed"
    /\ GLOBAL_MUTEX_SUM' = DAdd(tmp[rank], local_int[rank])
    /\ updates' = [updates EXCEPT ![rank] = @ + 1]
    /\ wpc' = [wpc EXCEPT ![rank] = "unlock"]
    /\ UNCHANGED <<in_vars, main_vars, mutex, local_vars, endpoint_adds, sampled>>

\* Variant: the worker goes on without releasing the mutex.
TrapUnlock_forgot(rank) ==
    /\ wpc[rank] = "unlock"
    /\ pc_main # "crashed"
    /\ wpc' = [wpc EXCEPT ![rank] = "return"]
    /\ UNCHANGED <<in_vars, main_vars, GLOBAL_MUTEX_SUM, mutex, local_vars, hist_vars>>

\* line 128: pthread_mutex_unlock(&mutex)
TrapUnlock(rank) ==
    /\ wpc[rank] = "unlock"
    /\ pc_main # "crashed"
    /\ mutex' = [st |-> "unlocked", owner |-> -1]
    /\ wpc' = [wpc EXCEPT ![rank] = "return"]
    /\ UNCHANGED <<in_vars, main_vars, GLOBAL_MUTEX_SUM, local_vars, hist_vars>>

\* line 130: return NULL
TrapReturn(rank) ==
    /\ wpc[rank] = "return"
    /\ pc_main # "crashed"
    /\ wpc' = [wpc EXCEPT ![rank] = "done"]
    /\ UNCHANGED <<in_vars, main_vars, GLOBAL_MUTEX_SUM, mutex, local_vars, hist_vars>>

----------------------------------------------------------------------------
Next ==
    \/ MainInit
    \/ MainMutexInit
    \/ MainMalloc
    \/ MainCreate
    \/ MainCreateNull
    \/ MainStoreFault
    \/ MainCreateExit
    \/ MainJoin
    \/ MainJoinExit
    \/ MainFree
    \/ MainDestroy
    \/ MainPrint
    \/ MainReturn
    \/ \E rank \in DOMAIN wpc : TrapStart(rank)
    \/ \E rank \in DOMAIN wpc : TrapLoop(rank)
    \/ \E rank \in DOMAIN wpc : TrapScale(rank)
    \/ \E rank \in DOMAIN wpc : TrapLock(rank)
    \/ \E rank \in DOMAIN wpc : TrapRead(rank)
    \/ \E rank \in DOMAIN wpc : TrapWrite(rank)
    \/ \E rank \in DOMAIN wpc : TrapUnlock(rank)
    \/ \E rank \in DOMAIN wpc : TrapReturn(rank)

Spec == Init /\ [][Next]_vars

\* the steps of the main thread
MainStep ==
    \/ MainInit
    \/ MainMutexInit
    \/ MainMalloc
    \/ MainCreate
    \/ MainCreateNull
    \/ MainStoreFault
    \/ MainCreateExit
    \/ MainJoin
    \/ MainJoinExit
    \/ MainFree
    \/ MainDestroy
    \/ MainPrint
    \/ MainReturn

\* the steps of the thread running mutex_Trap(rank)
WorkerStep(rank) ==
    /\ rank \in DOMAIN wpc
    /\ \/ TrapStart(rank)
       \/ TrapLoop(rank)
       \/ TrapScale(rank)
       \/ TrapLock(rank)
       \/ TrapRead(rank)
       \/ TrapWrite(rank)
       \/ TrapUnlock(rank)
       \/ TrapReturn(rank)

\* Every thread that can take a step is eventually scheduled; a pthread mutex
\* promises no more than that to a thread waiting for it.
FairSpec ==
    /\ InitFrom(0 .. FairMaxN, 1 .. FairMaxP)
    /\ [][Next]_vars
    /\ WF_vars(MainStep)
    /\ \A rank \in 0 .. FairMaxP - 1 : WF_vars(WorkerStep(rank))

----------------------------------------------------------------------------
\* Vocabulary of the properties.

Workers == 0 .. thread_count - 1

\* worker k has executed lines 109-110
RangeComputed(k) == wpc[k] \notin {"none", "start"}

\* the places <<k, j>> at which worker k evaluated f at sample index idx
Evaluations(idx) ==
    {kj \in UNION {{<<k, j>> : j \in DOMAIN sampled[k]} : k \in DOMAIN sampled} :
        sampled[kj[1]][kj[2]] = idx}

RECURSIVE SumUpTo(_, _)
SumUpTo(fn, k) == IF k < 0 THEN 0 ELSE fn[k] + SumUpTo(fn, k - 1)

\* h * ( (f(a)+f(b))/2 + f(a + 1*h) + ... + f(a + (n-1)*h) )
TrapezoidRule ==
    DMul(h, SumSamples(DDiv(DAdd(f(a), f(b)), FromInt(2)), 1, n - 1, a, h))

\* C1: for every worker count and every n the ranges [BLOCK_LOW, BLOCK_HIGH] of
\* the workers 0..P-1 cover {0..n-1}, no index lies in two ranges, and in a
\* complete run every sample index is evaluated by exactly one worker's loop.
C1_RangesPartition ==
    thread_count >= 1 =>
        /\ \A idx \in 0 .. n - 1 :
              Cardinality({k \in Workers : BLOCK_LOW(k, thread_count, n) <= idx
                                           /\ idx <= BLOCK_HIGH(k, thread_count, n)}) = 1
        /\ \A k \in Workers :
              \A idx \in BLOCK_LOW(k, thread_count, n) .. BLOCK_HIGH(k, thread_count, n) :
                  idx \in 0 .. n - 1
        /\ \A k \in Workers :
              RangeComputed(k) =>
                 /\ local_a[k] = BLOCK_LOW(k, thread_count, n)
                 /\ local_b[k] = BLOCK_HIGH(k, thread_count, n)
                 /\ \A j \in DOMAIN sampled[k] : sampled[k][j] \in local_a[k] .. local_b[k]
        /\ pc_main = "done" =>
              \A idx \in 0 .. n - 1 : Cardinality(Evaluations(idx)) = 1

C1_Witness ==
    /\ pc_main = "done"
    /\ n = 4
    /\ thread_count = 3
    /\ Cardinality(Evaluations(3)) = 1

\* C2: for n >= 1, once all workers are joined GLOBAL_MUTEX_SUM equals the
\* composite trapezoidal estimate h*((f(a)+f(b))/2 + sum of f(a+i*h), i = 1..n-1).
C2_TrapezoidEstimate ==
    (pc_main = "done" /\ n >= 1) => GLOBAL_MUTEX_SUM = TrapezoidRule

\* C3: in a complete run the endpoint term (f(a)+f(b))/2 is added to a local
\* sum exactly once in total over all workers.
C3_EndpointOnce ==
    pc_main = "done" => SumUpTo(endpoint_adds, thread_count - 1) = 1

\* C4: for fixed a, b, n the final GLOBAL_MUTEX_SUM is the same for the worker
\* counts 1, 2, 4 and 8.
C4_WorkerCountInvariance ==
    (pc_main = "done" /\ thread_count \in ThreadCounts) =>
        \A p \in ThreadCounts :
            GLOBAL_MUTEX_SUM = SerialTotal(FromInt(0), 0, p, n, a, b, h)

\* C5: every worker writes GLOBAL_MUTEX_SUM exactly once between its start and
\* its termination, it holds the mutex at that write, and a step of the
\* per-sample loop changes neither the accumulator nor the mutex.
C5_OneLockedUpdate ==
    /\ [](\A k \in DOMAIN wpc :
             /\ updates[k] <= 1
             /\ wpc[k] \in {"none", "start", "loop", "lock", "read", "write"} => updates[k] = 0
             /\ wpc[k] \in {"unlock", "return", "done"} => updates[k] = 1)
    /\ [][\A k \in DOMAIN wpc :
             updates'[k] # updates[k] =>
                 /\ mutex.st = "locked" /\ mutex.owner = k
                 /\ mutex'.st = "locked" /\ mutex'.owner = k]_vars
    /\ [][GLOBAL_MUTEX_SUM' # GLOBAL_MUTEX_SUM =>
             \E k \in DOMAIN wpc : updates'[k] = updates[k] + 1]_vars
    /\ [][\A k \in DOMAIN wpc :
             sampled'[k] # sampled[k] =>
                 /\ GLOBAL_MUTEX_SUM' = GLOBAL_MUTEX_SUM
                 /\ mutex' = mutex
                 /\ updates' = updates]_vars

C5_Witness ==
    /\ thread_count >= 2
    /\ n >= thread_count
    /\ \A k \in Workers : wpc[k] = "done" /\ updates[k] = 1 /\ Len(sampled[k]) >= 1

\* C6: main reads GLOBAL_MUTEX_SUM for the report only after every worker has
\* made its locked add and terminated.
C6_ReadAfterJoin ==
    (reported # Unread \/ pc_main \in {"print", "return", "done"}) =>
        \A k \in Workers : wpc[k] = "done" /\ updates[k] = 1

C6_Witness ==
    /\ reported # Unread
    /\ thread_count >= 2
    /\ reported = GLOBAL_MUTEX_SUM

\* C7: for a fixed configuration every interleaving ends with the same
\* GLOBAL_MUTEX_SUM, the one obtained by adding the contributions in rank order,
\* and that is the value reported.
C7_ScheduleDeterminism ==
    pc_main = "done" =>
        /\ GLOBAL_MUTEX_SUM = SerialTotal(FromInt(0), 0, thread_count, n, a, b, h)
        /\ reported = GLOBAL_MUTEX_SUM

C7_Witness ==
    /\ pc_main = "done"
    /\ thread_count >= 3
    /\ n >= 3
    /\ IsFinite(GLOBAL_MUTEX_SUM)
    /\ GLOBAL_MUTEX_SUM # FromInt(0)

\* C8: for n = 0 every worker's range is empty (low > high) and the final
\* GLOBAL_MUTEX_SUM after the join is 0.
C8_ZeroTrapezoids ==
    (thread_count >= 1 /\ n = 0) =>
        /\ \A k \in Workers : BLOCK_LOW(k, thread_count, n) > BLOCK_HIGH(k, thread_count, n)
        /\ pc_main = "done" => GLOBAL_MUTEX_SUM = FromInt(0)

\* C9: for every worker count and every n, the sizes high - low + 1 of the
\* ranges of any two workers differ by at most one.
C9_Balanced ==
    thread_count >= 1 =>
        \A k, j \in Workers :
            /\ (BLOCK_HIGH(k, thread_count, n) - BLOCK_LOW(k, thread_count, n))
                 - (BLOCK_HIGH(j, thread_count, n) - BLOCK_LOW(j, thread_count, n)) \in {-1, 0, 1}
            /\ (RangeComputed(k) /\ RangeComputed(j)) =>
                  (local_b[k] - local_a[k]) - (local_b[j] - local_a[j]) \in {-1, 0, 1}

C9_Witness ==
    /\ thread_count = 3
    /\ n = 4
    /\ \A k \in Workers : RangeComputed(k)
    /\ \E k, j \in Workers : (local_b[k] - local_a[k]) - (local_b[j] - local_a[j]) = 1

\* C10: when n is divisible by the worker count, every worker's range
\* [low, high] contains exactly n / P indices.
C10_EqualBlocks ==
    (thread_count >= 1 /\ n % thread_count = 0) =>
        \A k \in Workers :
            /\ BLOCK_HIGH(k, thread_count, n) - BLOCK_LOW(k, thread_count, n) + 1
                 = n \div thread_count
            /\ RangeComputed(k) => local_b[k] - local_a[k] + 1 = n \div thread_count
            /\ wpc[k] = "done" => Len(sampled[k]) = n \div thread_count

C10_Witness ==
    /\ thread_count = 2
    /\ n = 4
    /\ \A k \in Workers : wpc[k] = "done" /\ Len(sampled[k]) = 2

\* C11: if the allocation of the handle array fails, no worker is created,
\* no handle slot is written or joined, and no estimate is reported.
C11_AllocFailureAborts ==
    thread_handles = "null" =>
        /\ \A k \in DOMAIN wpc : wpc[k] = "none"
        /\ pc_main \in {"create", "crashed"}
        /\ reported = Unread

\* the workers between pthread_mutex_lock and pthread_mutex_unlock
InCriticalSection == {k \in DOMAIN wpc : wpc[k] \in {"read", "write", "unlock"}}

\* C12: at most one worker is between pthread_mutex_lock and
\* pthread_mutex_unlock, and that worker is the owner of the locked mutex.
C12_MutualExclusion ==
    /\ Cardinality(InCriticalSection) <= 1
    /\ \A k \in InCriticalSection : mutex.st = "locked" /\ mutex.owner = k

C12_Witness ==
    \E k, j \in DOMAIN wpc :
        /\ k # j
        /\ wpc[k] = "write"
        /\ wpc[j] = "lock"
        /\ mutex.owner = k

\* the scaled local sums of the workers k .. in_threads-1 that have written, added to acc
RECURSIVE SumOfAdded(_, _)
SumOfAdded(acc, k) ==
    IF k >= in_threads THEN acc
    ELSE SumOfAdded(IF updates[k] = 1 THEN DAdd(acc, local_int[k]) ELSE acc, k + 1)

\* C13: whenever no worker holds the mutex, GLOBAL_MUTEX_SUM is the sum of the
\* scaled local sums of exactly the workers that completed their add; after
\* the join that is the sum over all workers.
C13_NoLostUpdate ==
    /\ mutex.st # "locked" => GLOBAL_MUTEX_SUM = SumOfAdded(FromInt(0), 0)
    /\ pc_main \in {"free", "destroy", "print", "return", "done"} =>
          /\ \A k \in DOMAIN wpc : updates[k] = 1
          /\ GLOBAL_MUTEX_SUM = SumOfAdded(FromInt(0), 0)

C13_Witness ==
    /\ mutex.st = "unlocked"
    /\ \E k, j, l \in DOMAIN wpc :
          /\ updates[k] = 1 /\ updates[j] = 1 /\ k # j
          /\ local_int[k] # FromInt(0) /\ local_int[j] # FromInt(0)
          /\ wpc[l] = "lock"
    /\ IsFinite(GLOBAL_MUTEX_SUM)

\* every worker has acquired the mutex, added, released and terminated, and
\* main has passed the joins and reported the total
RunCompleted ==
    /\ pc_main = "done"
    /\ reported # Unread
    /\ \A k \in DOMAIN wpc : wpc[k] = "done" /\ updates[k] = 1

EmptyRangeWorker(k) ==
    /\ thread_count >= 1
    /\ n < thread_count
    /\ wpc[k] \in {"lock", "read", "write", "unlock", "return", "done"}
    /\ local_a[k] > local_b[k]

\* C15: when n < thread_count, a worker whose range is empty evaluates f at no
\* sample index and adds exactly zero to the accumulator.
C15_EmptyRangeAddsZero ==
    \A k \in DOMAIN wpc :
        EmptyRangeWorker(k) => sampled[k] = <<>> /\ local_int[k] = FromInt(0)

\* q is the floor of the quotient nu / de, de > 0
IsFloor(q, nu, de) == q * de <= nu /\ nu < (q + 1) * de

\* C16: worker 0's low is 0, the last worker's high is n-1, the low of worker
\* k+1 is the high of worker k plus one, each low is floor(k*n/P) and each
\* high is floor((k+1)*n/P) - 1.
C16_Contiguous ==
    thread_count >= 1 =>
        /\ BLOCK_LOW(0, thread_count, n) = 0
        /\ BLOCK_HIGH(thread_count - 1, thread_count, n) = n - 1
        /\ \A k \in Workers :
              /\ IsFloor(BLOCK_LOW(k, thread_count, n), k * n, thread_count)
              /\ IsFloor(BLOCK_HIGH(k, thread_count, n) + 1, (k + 1) * n, thread_count)
              /\ k + 1 \in Workers =>
                    BLOCK_LOW(k + 1, thread_count, n) = BLOCK_HIGH(k, thread_count, n) + 1
        /\ \A k \in Workers :
              RangeComputed(k) =>
                 /\ IsFloor(local_a[k], k * n, thread_count)
                 /\ IsFloor(local_b[k] + 1, (k + 1) * n, thread_count)
                 /\ k = 0 => local_a[k] = 0
                 /\ k = thread_count - 1 => local_b[k] = n - 1
                 /\ (k + 1 \in Workers /\ RangeComputed(k + 1)) =>
                       local_a[k + 1] = local_b[k] + 1

C16_Witness ==
    /\ thread_count = 3
    /\ n = 4
    /\ \A k \in Workers : RangeComputed(k)
    /\ local_a[1] = 1 /\ local_b[1] = 1
    /\ local_a[2] = 2 /\ local_b[2] = 3

\* some worker has been created
WorkersExist == \E k \in DOMAIN wpc : wpc[k] # "none"

\* the step is a step of worker k
WorkerActs(k) == (wpc[k] # "none" /\ wpc'[k] # wpc[k]) \/ sampled'[k] # sampled[k]

\* C17: once a worker exists, n, a, b, h and thread_count keep the values main
\* set before; a worker's step changes no variable of main and no local of
\* another worker (of the shared variables only GLOBAL_MUTEX_SUM and the mutex),
\* and a worker's scaled local sum is a function of its own rank and of those
\* globals alone.
C17_WorkerFrame ==
    /\ [](WorkersExist =>
             /\ n = in_n
             /\ thread_count = in_threads
             /\ a = FromInt(1)
             /\ b = FromInt(5)
             /\ h = DDiv(FromInt(4), FromInt(in_n)))
    /\ [][WorkersExist => UNCHANGED <<n, a, b, h, thread_count>>]_vars
    /\ [][\A k \in DOMAIN wpc :
             WorkerActs(k) =>
                /\ UNCHANGED <<n, a, b, h, thread_count, thread_handles, thread,
                               pc_main, reported>>
                /\ \A j \in DOMAIN wpc \ {k} :
                      /\ wpc'[j] = wpc[j]
                      /\ local_int'[j] = local_int[j]
                      /\ local_a'[j] = local_a[j]
                      /\ local_b'[j] = local_b[j]
                      /\ i'[j] = i[j]
                      /\ especial_case'[j] = especial_case[j]
                      /\ tmp'[j] = tmp[j]]_vars
    /\ [](\A k \in DOMAIN wpc :
             wpc[k] \in {"lock", "read", "write", "unlock", "return", "done"} =>
                 local_int[k] = LocalInt(k, thread_count, n, a, b, h))

C17_Witness ==
    /\ pc_main = "join"
    /\ thread_count >= 3
    /\ n >= 3
    /\ \E k, j, l \in DOMAIN wpc :
          wpc[k] = "unlock" /\ wpc[j] = "loop" /\ sampled[j] # <<>> /\ wpc[l] = "done"

\* C18: the mutex is initialised and GLOBAL_MUTEX_SUM is 0 when the first
\* worker is created; the mutex is destroyed and the handle array freed only
\* after every worker has terminated and been joined; a worker that locks or
\* unlocks finds the mutex initialised and not destroyed; the mutex is unlocked
\* when it is destroyed.
C18_Lifecycle ==
    /\ [][(~WorkersExist /\ WorkersExist') =>
             /\ mutex.st = "unlocked"
             /\ GLOBAL_MUTEX_SUM = FromInt(0)]_vars
    /\ []((mutex.st = "destroyed" \/ thread_handles = "freed") =>
             /\ \A k \in DOMAIN wpc : wpc[k] = "done"
             /\ thread = thread_count
             /\ pc_main \in {"destroy", "print", "return", "done"})
    /\ [](\A k \in DOMAIN wpc :
             wpc[k] \in {"lock", "read", "write", "unlock"} =>
                 mutex.st \in {"unlocked", "locked"})
    /\ [][(mutex'.st = "destroyed" /\ mutex.st # "destroyed") =>
             /\ mutex.st = "unlocked"
             /\ thread_handles = "freed"]_vars

C18_Witness ==
    /\ mutex.st = "destroyed"
    /\ thread_handles = "freed"
    /\ thread_count >= 2
    /\ \A k \in DOMAIN wpc : wpc[k] = "done" /\ updates[k] = 1

====
